---- MODULE Spec2Model ----
(***************************************************************************)
(* Model of spy-pet-checker (src/src/main.rs): process() fans out one      *)
(* lookup task per guild of the index file, gated by a tokio Semaphore,    *)
(* drains the JoinSet into (total, errors), and main() renders the report. *)
(***************************************************************************)
EXTENDS Integers, Sequences, FiniteSets, TLC

\* ---------------------------------------------------------------- bounds
MaxGuilds == 3
MaxConcurrency == 2
\* Largest index used when checking progress under fairness.
MaxFairGuilds == 2

GuildIds == 1..MaxGuilds

\* Display name the index file gives to guild id i.
GuildName(i) == IF i % 2 = 1 THEN "Acme" ELSE "Beta"

\* ---------------------------------------------------------------- inputs
\* Bodies the remote service may send with a success status.
Texts == {"false", "{\"id\":1}", "oops"}

\* serde_json::from_str::<Value>(&text): Ok(value) or Err.
ParseJson(text) ==
    CASE text = "false"        -> [ok |-> TRUE,  value |-> "Bool(false)"]
      [] text = "{\"id\":1}"   -> [ok |-> TRUE,  value |-> "Object"]
      [] OTHER                 -> [ok |-> FALSE, value |-> "Err"]

\* Contents of the index file: unreadable, not a string->string map, or a map
\* from guild id to guild name (BTreeMap: unique keys, iterated in key order).
IndexFiles ==
    {[kind |-> "unreadable", map |-> <<>>], [kind |-> "malformed", map |-> <<>>]} \cup
    {[kind |-> "map", map |-> m] : m \in {[i \in 1..k |-> GuildName(i)] : k \in 0..MaxGuilds}}

Formats == {"Plain", "Json"}

ArgsSet == [concurrency : 0..MaxConcurrency, format : Formats, output : {"stdout", "file"}]

\* process() reads only args.concurrency and args.index_path; format and
\* output are first read by main after process() has returned (l.157, l.168).
\* Their values are left open until then.
UnreadArgs == [concurrency : 0..MaxConcurrency, format : {"unread"}, output : {"unread"}]

VARIABLES
    args,       \* parsed command line (Args)
    index,      \* content of args.index_path
    main_pc,    \* position of main()/process()
    fail,       \* which `?` made main return Err ("none" while running)
    guilds,     \* BTreeMap<String,String> parsed from the index
    spawned,    \* number of guilds the `for` loop has spawned a task for
    permits,    \* Semaphore: permits available in the pool
    waiters,    \* Semaphore: FIFO queue of suspended acquirers
    task,       \* per-task future state
    join_set,   \* JoinSet: tasks spawned and not yet yielded by join_next
    completed,  \* JoinSet: finished tasks in completion order, not yet yielded
    total,      \* Vec<Response>
    errors,     \* i32 failure counter
    out,        \* lines/entries written to the primary output
    err_report  \* numbers printed by eprintln!("Errors: {errors}")

vars == <<args, index, main_pc, fail, guilds, spawned, permits, waiters, task,
          join_set, completed, total, errors, out, err_report>>

mainVars == <<args, index, main_pc, fail, guilds, spawned, total, errors, out, err_report>>
reportVars == <<out, err_report>>

\* Output of a task's future: Ok(Response), Err(report), or a JoinError when
\* the task did not run to completion.
NoResponse == [guild_id |-> 0, guild_name |-> "", api_response |-> ""]
NoResult   == [kind |-> "none", response |-> NoResponse]
ErrResult  == [kind |-> "Err", response |-> NoResponse]
JoinError  == [kind |-> "JoinError", response |-> NoResponse]
OkResult(r) == [kind |-> "Ok", response |-> r]

NoTask == [pc |-> "unspawned", ticket |-> FALSE, status |-> "none", body |-> "none",
           result |-> NoResult]

K == Len(guilds)
N == args.concurrency

Init ==
    /\ args \in UnreadArgs
    /\ index \in IndexFiles
    /\ main_pc = "read_index"
    /\ fail = "none"
    /\ guilds = <<>>
    /\ spawned = 0
    /\ permits = args.concurrency
    /\ waiters = <<>>
    /\ task = [t \in GuildIds |-> NoTask]
    /\ join_set = {}
    /\ completed = <<>>
    /\ total = <<>>
    /\ errors = 0
    /\ out = <<>>
    /\ err_report = <<>>


\* ------------------------------------------------------------- semaphore
\* Tasks that own a SemaphorePermit (acquired and not yet dropped).
Holders(tk) == {t \in GuildIds : tk[t].ticket}

\* Variant of ReleasePermit that returns the permit to the pool without
\* waking the first queued acquirer.
ReleasePermit_NoWake(tk) ==
    /\ task' = tk
    /\ waiters' = waiters
    /\ permits' = permits + 1

\* Drop of task t's SemaphorePermit: the permit goes to the first queued
\* acquirer if there is one, otherwise back to the pool.  tk is the task map
\* in which t no longer owns its ticket.
ReleasePermit(tk) ==
    IF waiters # <<>>
    THEN /\ task' = [tk EXCEPT ![Head(waiters)].ticket = TRUE,
                               ![Head(waiters)].pc = "holding"]
         /\ waiters' = Tail(waiters)
         /\ permits' = permits
    ELSE /\ task' = tk
         /\ waiters' = waiters
         /\ permits' = permits + 1

\* The task's future returns `result` (or unwinds): it is finished and the
\* JoinSet will yield it.
Finish(t, tk, result) ==
    [tk EXCEPT ![t].pc = "done", ![t].ticket = FALSE, ![t].result = result]

Running == main_pc \in {"spawn", "drain"}

\* Variant of Acquire that treats a capacity of 0 as "no limit".
Acquire_ZeroIsUnlimited(t) ==
    /\ Running
    /\ task[t].pc = "start"
    /\ IF permits > 0 \/ args.concurrency = 0
       THEN /\ permits' = IF args.concurrency = 0 THEN permits ELSE permits - 1
            /\ task' = [task EXCEPT ![t].pc = "holding", ![t].ticket = TRUE]
            /\ waiters' = waiters
       ELSE /\ permits' = permits
            /\ task' = [task EXCEPT ![t].pc = "waiting"]
            /\ waiters' = Append(waiters, t)
    /\ UNCHANGED <<mainVars, join_set, completed>>

\* Variant of Acquire that hands out a ticket without waiting for a free permit.
Acquire_NoWait(t) ==
    /\ Running
    /\ task[t].pc = "start"
    /\ permits' = permits - 1
    /\ task' = [task EXCEPT ![t].pc = "holding", ![t].ticket = TRUE]
    /\ waiters' = waiters
    /\ UNCHANGED <<mainVars, join_set, completed>>

\* ------------------------------------------------------------------ tasks
\* l.81-84: sema.acquire().await
Acquire(t) ==
    /\ Running
    /\ task[t].pc = "start"
    /\ IF permits > 0
       THEN /\ permits' = permits - 1
            /\ task' = [task EXCEPT ![t].pc = "holding", ![t].ticket = TRUE]
            /\ waiters' = waiters
       ELSE /\ permits' = permits
            /\ task' = [task EXCEPT ![t].pc = "waiting"]
            /\ waiters' = Append(waiters, t)
    /\ UNCHANGED <<mainVars, join_set, completed>>

\* l.86-88: build the url and issue reqwest::get(url)
Request(t) ==
    /\ Running
    /\ task[t].pc = "holding"
    /\ task' = [task EXCEPT ![t].pc = "requesting"]
    /\ UNCHANGED <<mainVars, permits, waiters, join_set, completed>>

\* l.88-90: reqwest::get(url).await fails; `?` returns Err and the ticket is
\* dropped with the future's locals.
TransportError(t) ==
    /\ Running
    /\ task[t].pc = "requesting"
    /\ ReleasePermit(Finish(t, [task EXCEPT ![t].status = "neterr"], ErrResult))
    /\ completed' = Append(completed, t)
    /\ UNCHANGED <<mainVars, join_set>>

\* The task panics while it is polled inside the request; unwinding drops
\* the ticket and the JoinSet will yield a JoinError for it.
Panic(t) ==
    /\ Running
    /\ task[t].pc = "requesting"
    /\ ReleasePermit(Finish(t, [task EXCEPT ![t].status = "panic"], JoinError))
    /\ completed' = Append(completed, t)
    /\ UNCHANGED <<mainVars, join_set>>

\* Variant of RespondSuccess that drops the ticket before the body is read.
RespondSuccess_DropsEarly(t) ==
    /\ Running
    /\ task[t].pc = "requesting"
    /\ ReleasePermit([task EXCEPT ![t].pc = "reading", ![t].status = "200",
                                  ![t].ticket = FALSE])
    /\ UNCHANGED <<mainVars, join_set, completed>>

\* l.88-92: a response with a success status arrives; the body is awaited
\* next (l.93-96) with the ticket still held.
RespondSuccess(t) ==
    /\ Running
    /\ task[t].pc = "requesting"
    /\ task' = [task EXCEPT ![t].pc = "reading", ![t].status = "200"]
    /\ UNCHANGED <<mainVars, permits, waiters, join_set, completed>>

\* l.88-92, l.111-112: a response with a non-success status arrives;
\* drop(ticket) comes before the status is logged.
RespondFailure(t) ==
    /\ Running
    /\ task[t].pc = "requesting"
    /\ ReleasePermit([task EXCEPT ![t].pc = "logging", ![t].status = "500",
                                  ![t].ticket = FALSE])
    /\ UNCHANGED <<mainVars, join_set, completed>>

\* l.113-114: error!(status), bail!(..)
LogStatus(t) ==
    /\ Running
    /\ task[t].pc = "logging"
    /\ task' = Finish(t, task, ErrResult)
    /\ completed' = Append(completed, t)
    /\ UNCHANGED <<mainVars, permits, waiters, join_set>>

\* Variant of BodyError in which the ticket is never given back.
BodyError_Leaks(t) ==
    /\ Running
    /\ task[t].pc = "reading"
    /\ task' = Finish(t, [task EXCEPT ![t].body = "bodyerr"], ErrResult)
    /\ completed' = Append(completed, t)
    /\ UNCHANGED <<mainVars, permits, waiters, join_set>>

\* l.93-96: response.text().await fails; `?` returns Err, dropping the ticket.
BodyError(t) ==
    /\ Running
    /\ task[t].pc = "reading"
    /\ ReleasePermit(Finish(t, [task EXCEPT ![t].body = "bodyerr"], ErrResult))
    /\ completed' = Append(completed, t)
    /\ UNCHANGED <<mainVars, join_set>>

\* Variant of ReadBody that keeps the ticket until the end of the task.
ReadBody_KeepsTicket(t) ==
    /\ Running
    /\ task[t].pc = "reading"
    /\ \E text \in Texts :
         task' = [task EXCEPT ![t].pc = "parsing", ![t].body = text]
    /\ UNCHANGED <<mainVars, permits, waiters, join_set, completed>>

\* l.93-97: response.text().await yields the body; drop(ticket).
ReadBody(t) ==
    /\ Running
    /\ task[t].pc = "reading"
    /\ \E text \in Texts :
         ReleasePermit([task EXCEPT ![t].pc = "parsing", ![t].body = text,
                                    ![t].ticket = FALSE])
    /\ UNCHANGED <<mainVars, join_set, completed>>

\* Variant of TaskResult that returns a Response even when the body does not parse.
TaskResult_IgnoresParseError(t, text) ==
    OkResult([guild_id |-> t, guild_name |-> guilds[t],
              api_response |-> ParseJson(text).value])

\* l.98-110: log, then build the Response from serde_json::from_str(&text)
TaskResult(t, text) ==
    IF ParseJson(text).ok
    THEN OkResult([guild_id |-> t, guild_name |-> guilds[t],
                   api_response |-> ParseJson(text).value])
    ELSE ErrResult

Parse(t) ==
    /\ Running
    /\ task[t].pc = "parsing"
    /\ task' = Finish(t, task, TaskResult(t, task[t].body))
    /\ completed' = Append(completed, t)
    /\ UNCHANGED <<mainVars, permits, waiters, join_set>>

TaskStep(t) ==
    \/ Acquire(t)
    \/ Request(t)
    \/ TransportError(t)
    \/ Panic(t)
    \/ RespondSuccess(t)
    \/ RespondFailure(t)
    \/ LogStatus(t)
    \/ BodyError(t)
    \/ ReadBody(t)
    \/ Parse(t)


taskVars == <<permits, waiters, task, join_set, completed>>

\* ------------------------------------------------------------------- main
\* l.67-69: read_to_string fails; `?` in process, `?` in main l.154.
ReadIndexFail ==
    /\ main_pc = "read_index"
    /\ index.kind = "unreadable"
    /\ main_pc' = "exit_err"
    /\ fail' = "read"
    /\ UNCHANGED <<args, index, guilds, spawned, total, errors, reportVars, taskVars>>

\* Variant of ParseIndexFail that falls back to an empty map and carries on.
ParseIndexFail_Continues ==
    /\ main_pc = "read_index"
    /\ index.kind = "malformed"
    /\ guilds' = <<>>
    /\ main_pc' = "spawn"
    /\ UNCHANGED <<args, index, fail, spawned, total, errors, reportVars, taskVars>>

\* l.71-72: the file is not a string->string map.
ParseIndexFail ==
    /\ main_pc = "read_index"
    /\ index.kind = "malformed"
    /\ main_pc' = "exit_err"
    /\ fail' = "parse"
    /\ UNCHANGED <<args, index, guilds, spawned, total, errors, reportVars, taskVars>>

\* l.67-74: the index is read and parsed, the JoinSet is created.
LoadIndex ==
    /\ main_pc = "read_index"
    /\ index.kind = "map"
    /\ guilds' = index.map
    /\ main_pc' = "spawn"
    /\ UNCHANGED <<args, index, fail, spawned, total, errors, reportVars, taskVars>>

\* l.76-119: one iteration of the `for` loop, in key order.
Spawn ==
    /\ main_pc = "spawn"
    /\ spawned < K
    /\ spawned' = spawned + 1
    /\ task' = [task EXCEPT ![spawned + 1].pc = "start"]
    /\ join_set' = join_set \cup {spawned + 1}
    /\ UNCHANGED <<args, index, main_pc, fail, guilds, total, errors, reportVars,
                   permits, waiters, completed>>

\* l.119-122: the loop is over; total and errors are initialised.
EndSpawn ==
    /\ main_pc = "spawn"
    /\ spawned = K
    /\ main_pc' = "drain"
    /\ UNCHANGED <<args, index, fail, guilds, spawned, total, errors, reportVars, taskVars>>

\* Dropping the JoinSet and the runtime cancels every unfinished task; their
\* futures are dropped, which returns tickets and removes queued acquirers.
AbortAll(tk) ==
    [t \in GuildIds |->
        IF tk[t].pc \in {"unspawned", "done"} THEN tk[t]
        ELSE [tk[t] EXCEPT !.pc = "aborted", !.ticket = FALSE]]

\* Variant of JoinNext that puts each new Response at the front of total.
JoinNext_Prepends ==
    /\ main_pc = "drain"
    /\ completed # <<>>
    /\ LET t == Head(completed)
           result == task[t].result
       IN /\ completed' = Tail(completed)
          /\ join_set' = join_set \ {t}
          /\ IF result.kind = "JoinError"
             THEN /\ main_pc' = "exit_err"
                  /\ fail' = "join"
                  /\ task' = AbortAll(task)
                  /\ waiters' = <<>>
                  /\ permits' = args.concurrency
                  /\ UNCHANGED <<total, errors>>
             ELSE /\ IF result.kind = "Ok"
                     THEN total' = <<result.response>> \o total /\ errors' = errors
                     ELSE errors' = errors + 1 /\ total' = total
                  /\ UNCHANGED <<main_pc, fail, task, waiters, permits>>
    /\ UNCHANGED <<args, index, guilds, spawned, reportVars>>

\* Variant of JoinNext that propagates a task's Err like a join error.
JoinNext_ErrAborts ==
    /\ main_pc = "drain"
    /\ completed # <<>>
    /\ LET t == Head(completed)
           result == task[t].result
       IN /\ completed' = Tail(completed)
          /\ join_set' = join_set \ {t}
          /\ IF result.kind \in {"JoinError", "Err"}
             THEN /\ main_pc' = "exit_err"
                  /\ fail' = "join"
                  /\ task' = AbortAll(task)
                  /\ waiters' = <<>>
                  /\ permits' = args.concurrency
                  /\ UNCHANGED <<total, errors>>
             ELSE /\ total' = Append(total, result.response)
                  /\ errors' = errors
                  /\ UNCHANGED <<main_pc, fail, task, waiters, permits>>
    /\ UNCHANGED <<args, index, guilds, spawned, reportVars>>

\* Variant of JoinNext whose Err arm does not count the failure.
JoinNext_DropsErr ==
    /\ main_pc = "drain"
    /\ completed # <<>>
    /\ LET t == Head(completed)
           result == task[t].result
       IN /\ completed' = Tail(completed)
          /\ join_set' = join_set \ {t}
          /\ IF result.kind = "JoinError"
             THEN /\ main_pc' = "exit_err"
                  /\ fail' = "join"
                  /\ task' = AbortAll(task)
                  /\ waiters' = <<>>
                  /\ permits' = args.concurrency
                  /\ UNCHANGED <<total, errors>>
             ELSE /\ IF result.kind = "Ok"
                     THEN total' = Append(total, result.response)
                     ELSE total' = total
                  /\ errors' = errors
                  /\ UNCHANGED <<main_pc, fail, task, waiters, permits>>
    /\ UNCHANGED <<args, index, guilds, spawned, reportVars>>

\* l.124-135: join_next() yields the next finished task.
JoinNext ==
    /\ main_pc = "drain"
    /\ completed # <<>>
    /\ LET t == Head(completed)
           result == task[t].result
       IN /\ completed' = Tail(completed)
          /\ join_set' = join_set \ {t}
          /\ IF result.kind = "JoinError"
             THEN \* l.125: `?` returns the join error from process and main
                  /\ main_pc' = "exit_err"
                  /\ fail' = "join"
                  /\ task' = AbortAll(task)
                  /\ waiters' = <<>>
                  /\ permits' = args.concurrency
                  /\ UNCHANGED <<total, errors>>
             ELSE /\ IF result.kind = "Ok"
                     THEN total' = Append(total, result.response) /\ errors' = errors
                     ELSE errors' = errors + 1 /\ total' = total
                  /\ UNCHANGED <<main_pc, fail, task, waiters, permits>>
    /\ UNCHANGED <<args, index, guilds, spawned, reportVars>>

\* l.124, l.137: join_next() yields None; process returns Ok((total, errors)).
\* main goes on to read args.output and args.format, which get their values here.
DrainExhausted ==
    /\ main_pc = "drain"
    /\ join_set = {}
    /\ main_pc' = "open_output"
    /\ args' \in {a \in ArgsSet : a.concurrency = args.concurrency}
    /\ UNCHANGED <<index, fail, guilds, spawned, total, errors, reportVars, taskVars>>

\* l.157-167: stdout, or the named file opened with write+truncate.
OpenOutput ==
    /\ main_pc = "open_output"
    /\ main_pc' = "write"
    /\ UNCHANGED <<args, index, fail, guilds, spawned, total, errors, reportVars, taskVars>>

\* l.159-163: the file cannot be opened; `?` returns Err.
OpenOutputFail ==
    /\ main_pc = "open_output"
    /\ args.output = "file"
    /\ main_pc' = "exit_err"
    /\ fail' = "open"
    /\ UNCHANGED <<args, index, guilds, spawned, total, errors, reportVars, taskVars>>

NoMatchLine == [kind |-> "nomatch", guild_name |-> "", guild_id |-> 0]
CompromisedLine(r) == [kind |-> "compromised", guild_name |-> r.guild_name, guild_id |-> r.guild_id]

\* Variant of PlainLines that prints a line for every entry of total.
PlainLines_NoFilter(rs) ==
    [i \in 1..Len(rs) |-> CompromisedLine(rs[i])]

\* l.173-181: one line per guild whose api_response is not Value::Bool(false)
RECURSIVE PlainLines(_)
PlainLines(rs) ==
    IF rs = <<>> THEN <<>>
    ELSE (IF Head(rs).api_response # "Bool(false)"
          THEN <<CompromisedLine(Head(rs))>> ELSE <<>>) \o PlainLines(Tail(rs))

\* l.169-184
PlainOutput(rs) == IF rs = <<>> THEN <<NoMatchLine>> ELSE PlainLines(rs)

\* Variant of JsonOutput that leaves out the entries whose payload is false.
JsonOutput_SkipsAbsent(rs) ==
    LET Present(r) == r.api_response # "Bool(false)"
        kept == SelectSeq(rs, Present)
    IN [i \in 1..Len(kept) |-> [kind |-> "object", guild_id |-> kept[i].guild_id,
                                guild_name |-> kept[i].guild_name,
                                api_response |-> kept[i].api_response]]

\* l.185: serde_json::to_string_pretty(&total): an array with one object
\* {guild_id, guild_name, api_response} per element, in order.
JsonOutput(rs) ==
    [i \in 1..Len(rs) |-> [kind |-> "object", guild_id |-> rs[i].guild_id,
                           guild_name |-> rs[i].guild_name,
                           api_response |-> rs[i].api_response]]

\* l.168-187
Render(format, rs) == IF format = "Plain" THEN PlainOutput(rs) ELSE JsonOutput(rs)

WriteOutput ==
    /\ main_pc = "write"
    /\ out' = Render(args.format, total)
    /\ main_pc' = "report_errors"
    /\ UNCHANGED <<args, index, fail, guilds, spawned, total, errors, err_report, taskVars>>

\* l.187: a write to the output fails; `?` returns Err.
WriteOutputFail ==
    /\ main_pc = "write"
    /\ main_pc' = "exit_err"
    /\ fail' = "write"
    /\ UNCHANGED <<args, index, guilds, spawned, total, errors, reportVars, taskVars>>

\* Variant of ReportErrors that makes the exit status follow the failure count.
ReportErrors_ExitStatusFromErrors ==
    /\ main_pc = "report_errors"
    /\ err_report' = Append(err_report, errors)
    /\ main_pc' = IF errors = 0 THEN "exit_ok" ELSE "exit_err"
    /\ UNCHANGED <<args, index, fail, guilds, spawned, total, errors, out, taskVars>>

\* l.188-190
ReportErrors ==
    /\ main_pc = "report_errors"
    /\ err_report' = Append(err_report, errors)
    /\ main_pc' = "exit_ok"
    /\ UNCHANGED <<args, index, fail, guilds, spawned, total, errors, out, taskVars>>

Next ==
    \/ ReadIndexFail
    \/ ParseIndexFail
    \/ LoadIndex
    \/ Spawn
    \/ EndSpawn
    \/ \E t \in GuildIds : TaskStep(t)
    \/ JoinNext
    \/ DrainExhausted
    \/ OpenOutput
    \/ OpenOutputFail
    \/ WriteOutput
    \/ WriteOutputFail
    \/ ReportErrors

Spec == Init /\ [][Next]_vars


\* process() on its own (l.64-138), for a readable index: the steps from
\* loading the index to the return of (total, errors).
ProcessInit ==
    /\ Init
    /\ index.kind = "map"
    /\ Len(index.map) <= MaxFairGuilds

ProcessMain ==
    \/ LoadIndex
    \/ Spawn
    \/ EndSpawn
    \/ JoinNext
    \/ DrainExhausted

ProcessNext ==
    \/ ProcessMain
    \/ \E t \in GuildIds : TaskStep(t)

\* The runtime keeps polling the main future and every spawned task that can
\* make progress, and every lookup call eventually returns.
FairSpec ==
    /\ ProcessInit
    /\ [][ProcessNext]_vars
    /\ WF_vars(ProcessMain)
    /\ \A t \in GuildIds : WF_vars(TaskStep(t))

\* ================================================================ claims
\* process() returned Ok((total, errors)): join_next() yielded None.
Drained ==
    /\ main_pc \in {"open_output", "write", "report_errors", "exit_ok", "exit_err"}
    /\ fail \in {"none", "open", "write"}

\* Task t is between issuing reqwest::get and receiving the body or an error.
InCall(t) == task[t].pc \in {"requesting", "reading"}

\* The lookup of guild t returned a success status and a body that parses.
LookupSucceeded(t) ==
    /\ task[t].status = "200"
    /\ task[t].body \in Texts
    /\ ParseJson(task[t].body).ok

RECURSIVE SeqToSet(_)
SeqToSet(q) == IF q = <<>> THEN {} ELSE {Head(q)} \cup SeqToSet(Tail(q))

\* C1: at every moment the number of permits acquired and not yet released
\* is at most the pool capacity N, whatever K and the interleaving.
C1_OutstandingPermitsBounded ==
    Cardinality(Holders(task)) <= args.concurrency

\* The pool is exhausted by N >= 1 holders while another task is suspended.
C1_Witness ==
    /\ args.concurrency >= 1
    /\ Cardinality(Holders(task)) = args.concurrency
    /\ waiters # <<>>

\* C2: a task is inside its network call only while it holds a permit, so
\* at most N tasks are in their network call at once (none overlap if N = 1).
C2_CallsHoldPermit ==
    /\ \A t \in GuildIds : InCall(t) => task[t].ticket
    /\ Cardinality({t \in GuildIds : InCall(t)}) <= args.concurrency
    /\ args.concurrency = 1 =>
         \A t, u \in GuildIds : (InCall(t) /\ InCall(u)) => t = u

\* With N = 1, one task is reading its body while two others are not admitted.
C2_Witness ==
    /\ args.concurrency = 1
    /\ \E t \in GuildIds : task[t].pc = "reading"
    /\ Len(waiters) >= 2

\* C3: every spawned task produces exactly one outcome and the drain loop
\* consumes each exactly once; when the drain is exhausted
\* successes.length + failure_count = K.
C3_ExactlyKOutcomes ==
    /\ \A i, j \in 1..Len(completed) : completed[i] = completed[j] => i = j
    /\ \A i \in 1..Len(completed) :
         completed[i] \in join_set /\ task[completed[i]].pc = "done"
    /\ \A i, j \in 1..Len(total) : total[i].guild_id = total[j].guild_id => i = j
    /\ fail # "join" => Len(total) + errors = spawned - Cardinality(join_set)
    /\ Drained =>
         /\ Len(total) + errors = K
         /\ spawned = K
         /\ join_set = {}
         /\ \A t \in 1..K : task[t].pc = "done"

\* A drained run of three guilds with both successes and failures.
C3_Witness ==
    /\ Drained
    /\ K = 3
    /\ errors >= 1
    /\ Len(total) >= 1

\* C4: the final aggregate depends only on the per-guild responses: the ids in
\* successes are exactly those whose lookup returned a success status with a
\* parseable body, and failure_count is the number of all the others.
C4_AggregateContent ==
    Drained =>
        /\ {total[i].guild_id : i \in 1..Len(total)} = {t \in 1..K : LookupSucceeded(t)}
        /\ errors = K - Cardinality({t \in 1..K : LookupSucceeded(t)})
        /\ \A i \in 1..Len(total) :
             /\ total[i].guild_name = guilds[total[i].guild_id]
             /\ total[i].api_response = ParseJson(task[total[i].guild_id].body).value

\* A drained run whose successes are not in input order, with a failure.
C4_Witness ==
    /\ Drained
    /\ Len(total) = 2
    /\ total[1].guild_id > total[2].guild_id
    /\ errors = 1


\* Tasks the drain loop has been handed by join_next().
Yielded == (1..spawned) \ join_set

\* C5 (as claimed): a task whose join yields a join error is counted as
\* exactly one failure and the drain goes on; the run is not aborted.
C5_JoinErrorCountedAsFailure ==
    \A t \in Yielded :
        task[t].result.kind = "JoinError" => (errors >= 1 /\ fail # "join")

\* C6: a per-task error (transport error, non-success status, body read
\* failure, unparseable body) becomes that task's Err outcome, is counted once
\* by the drain and never aborts the run: no other task is cancelled because
\* of it and the run can always go on towards the report.
C6_TaskErrorsAbsorbed ==
    /\ errors = Cardinality({t \in Yielded : task[t].result.kind = "Err"})
    /\ \A t \in GuildIds :
         (task[t].status \in {"neterr", "500"} \/ task[t].body \in {"bodyerr", "oops"})
            => task[t].pc \in {"logging", "parsing", "aborted", "done"}
               /\ (task[t].pc = "done" => task[t].result = ErrResult)
    /\ (fail = "join" \/ \E t \in GuildIds : task[t].pc = "aborted")
          => \E t \in GuildIds : task[t].status = "panic"
    /\ (main_pc \in {"spawn", "drain"} /\ args.concurrency >= 1) => ENABLED Next

\* Three guilds fail in three different ways and the run still reports.
C6_Witness ==
    /\ main_pc = "exit_ok"
    /\ K = 3
    /\ task[1].status = "neterr"
    /\ task[2].body = "bodyerr"
    /\ task[3].body = "oops"
    /\ errors = 3

\* C7 (as claimed): when the output file cannot be opened the run aborts
\* before any task runs: no permit was acquired, no lookup was issued.
C7_UnwritableOutputAbortsBeforeTasks ==
    fail = "open" =>
        \A t \in GuildIds : task[t].pc = "unspawned" /\ task[t].status = "none"

\* C8: with an unreadable or malformed index the run never starts: no task is
\* spawned, no permit acquired, no lookup issued, no report, no failure count.
C8_BadIndexNeverStarts ==
    index.kind \in {"unreadable", "malformed"} =>
        /\ main_pc \in {"read_index", "exit_err"}
        /\ spawned = 0
        /\ join_set = {}
        /\ \A t \in GuildIds : task[t] = NoTask
        /\ permits = args.concurrency
        /\ waiters = <<>>
        /\ total = <<>>
        /\ out = <<>>
        /\ err_report = <<>>

\* The index did not parse and main has returned the error.
C8_Witness ==
    /\ index.kind = "malformed"
    /\ fail = "parse"
    /\ main_pc = "exit_err"

\* Every lookup succeeded with the sentinel body `false`, for K >= 1 guilds.
AllAbsent ==
    /\ K >= 1
    /\ \A t \in 1..K : task[t].status = "200" /\ task[t].body = "false"

\* The primary report has been written.
Written == main_pc \in {"report_errors", "exit_ok"}

\* C9 (as claimed): when every lookup returns the sentinel, the Plain output
\* is exactly the single "No servers matched" line.
C9_AllAbsentPlainIsNoMatchLine ==
    (Written /\ args.format = "Plain" /\ AllAbsent) => out = <<NoMatchLine>>

\* C10 (as claimed): when every lookup returns the sentinel, the Structured
\* output is an empty sequence.
C10_AllAbsentJsonIsEmpty ==
    (Written /\ args.format = "Json" /\ AllAbsent) => out = <<>>

\* C10 (amended): when every lookup returns the sentinel, the Structured
\* output has one entry per guild, each with that guild's id, its name and
\* the payload false.
C10_AllAbsentJsonListsEveryGuild ==
    (Written /\ args.format = "Json" /\ AllAbsent) =>
        /\ Len(out) = K
        /\ {out[i].guild_id : i \in 1..Len(out)} = 1..K
        /\ \A i \in 1..Len(out) :
             /\ out[i].kind = "object"
             /\ out[i].guild_name = guilds[out[i].guild_id]
             /\ out[i].api_response = "Bool(false)"

\* A Json report of three guilds that all returned the sentinel.
C10_Witness ==
    /\ Written
    /\ args.format = "Json"
    /\ AllAbsent
    /\ K = 3


\* Guilds whose lookup gave a payload other than the sentinel false.
Compromised ==
    {t \in 1..K : LookupSucceeded(t) /\ ParseJson(task[t].body).value # "Bool(false)"}

\* C11: in Plain format, a non-empty successes gives exactly one
\* "<name> (ID: <id>) is compromised!" line per Found entry whose payload is
\* not false, with that entry's own id and name, and no other line; an empty
\* successes gives exactly the one explanatory line.
C11_PlainOutputLines ==
    (Written /\ args.format = "Plain") =>
        IF total = <<>>
        THEN out = <<NoMatchLine>>
        ELSE /\ Len(out) = Cardinality(Compromised)
             /\ \A t \in Compromised :
                  Cardinality({i \in 1..Len(out) : out[i].guild_id = t}) = 1
             /\ \A i \in 1..Len(out) :
                  /\ out[i].kind = "compromised"
                  /\ out[i].guild_id \in Compromised
                  /\ out[i].guild_name = guilds[out[i].guild_id]

\* A Plain report over one compromised guild, one absent guild, one failure.
C11_Witness ==
    /\ Written
    /\ args.format = "Plain"
    /\ K = 3
    /\ Cardinality(Compromised) = 1
    /\ Len(total) = 2
    /\ errors = 1

\* C12 (as claimed): every run that loaded its input and drained its tasks
\* has reported failure_count on the diagnostic stream when it ends, whether
\* or not writing the primary report succeeded.
C12_FailureCountAlwaysReported ==
    (main_pc \in {"exit_ok", "exit_err"} /\ fail \in {"none", "write"}) =>
        err_report = <<errors>>

\* C13: every permit a task acquires is given back exactly once on every exit
\* path, before the task's outcome reaches the drain loop: permits are
\* conserved, a task past its release point holds none, and no finished or
\* yielded task holds one.
C13_PermitReleasedExactlyOnce ==
    /\ permits + Cardinality(Holders(task)) = args.concurrency
    /\ permits >= 0
    /\ \A t \in GuildIds :
         task[t].ticket <=> task[t].pc \in {"holding", "requesting", "reading"}
    /\ \A i \in 1..Len(completed) : ~task[completed[i]].ticket
    /\ \A t \in Yielded : ~task[t].ticket

\* Three tasks left by three different exit paths and the pool is full again.
C13_Witness ==
    /\ main_pc = "drain"
    /\ args.concurrency = 1
    /\ K = 3
    /\ task[1].status = "500" /\ task[1].pc = "done"
    /\ task[2].body = "bodyerr" /\ task[2].pc = "done"
    /\ task[3].result.kind = "Ok"
    /\ permits = 1


\* process() has returned after yielding every one of the K tasks' outcomes.
FullyDrained ==
    /\ Drained
    /\ \A t \in 1..K : task[t].pc = "done" /\ task[t].status # "none" /\ t \in Yielded
    /\ Len(total) + errors = K

SomePanic == \E t \in GuildIds : task[t].status = "panic"

\* C14: with N >= 1, under fair scheduling and provided every lookup call
\* returns a response or an error, every task eventually gets a permit and
\* produces its outcome and the drain loop ends having consumed all K
\* outcomes, however many tasks fail.
C14_RunProceedsToFullDrain ==
    (args.concurrency >= 1 /\ index.kind = "map") => <>(FullyDrained \/ SomePanic)

\* With one permit, two tasks both failed and process() has just returned.
C14_Witness ==
    /\ main_pc = "open_output"
    /\ args.concurrency = 1
    /\ K = 2
    /\ errors = 2
    /\ FullyDrained


\* C15: the exit status does not depend on failure_count: a run that drained
\* its tasks and wrote its report exits with success for every value of
\* errors, and main only fails through one of its `?`.
C15_ExitStatusIgnoresFailures ==
    /\ main_pc = "report_errors" => ENABLED ReportErrors
    /\ err_report # <<>> => (main_pc = "exit_ok" /\ fail = "none")
    /\ main_pc = "exit_err" => fail \in {"read", "parse", "join", "open", "write"}
    /\ main_pc = "exit_ok" => (Drained /\ err_report = <<errors>>)

\* A run with some but not all lookups failed has exited with success.
C15_Witness ==
    /\ main_pc = "exit_ok"
    /\ K = 3
    /\ errors = 2
    /\ Len(total) = 1

\* Task t has its response and is interpreting it (parsing the body or
\* classifying/logging the status).
Interpreting(t) == task[t].pc \in {"parsing", "logging"}

\* C16: the permit is released before the response is interpreted: a task
\* that parses its body or logs its status holds no permit and does not
\* occupy a slot, so a waiting task is admitted while it parses.
C16_ReleasedBeforeInterpreting ==
    \A t \in GuildIds :
        Interpreting(t) =>
            /\ ~task[t].ticket
            /\ permits + Cardinality(Holders(task)) = args.concurrency
            /\ waiters # <<>> => Cardinality(Holders(task) \ {t}) = args.concurrency

\* With one permit, one task is parsing while another is in its network call.
C16_Witness ==
    /\ args.concurrency = 1
    /\ \E t, u \in GuildIds : task[t].pc = "parsing" /\ InCall(u)


\* This step is the drain loop taking the next finished task from the JoinSet.
DrainStep ==
    /\ main_pc = "drain"
    /\ completed # <<>>
    /\ completed' = Tail(completed)
    /\ join_set' = join_set \ {Head(completed)}

\* C17 (as claimed): the aggregate starts empty and is changed only by the
\* drain step; each drained outcome either appends exactly one entry to
\* successes or adds exactly one to failure_count (never both, never
\* neither); once the drain is exhausted it never changes.
C17_AggregateChangedOnlyByDrain ==
    /\ total = <<>> /\ errors = 0
    /\ [][ /\ (total' # total \/ errors' # errors) => DrainStep
           /\ DrainStep =>
                \/ (Len(total') = Len(total) + 1 /\ SubSeq(total', 1, Len(total)) = total
                    /\ errors' = errors)
                \/ (total' = total /\ errors' = errors + 1)
           /\ Drained => (total' = total /\ errors' = errors)
         ]_vars

\* C18: successes is in completion order: finished tasks queue up in the
\* order they complete, the drain yields them in that order, and total only
\* grows by appending the Response of the task being yielded at its end.
C18_SuccessesInCompletionOrder ==
    [][ /\ completed' # completed =>
             \/ DrainStep
             \/ \E t \in GuildIds : /\ task[t].pc # "done"
                                    /\ task'[t].pc = "done"
                                    /\ completed' = Append(completed, t)
        /\ total' # total =>
             /\ DrainStep
             /\ task[Head(completed)].result.kind = "Ok"
             /\ total' = Append(total, task[Head(completed)].result.response)
      ]_vars

\* Both guilds were found and the second one completed first.
C18_Witness ==
    /\ Drained
    /\ K = 2
    /\ Len(total) = 2
    /\ total[1].guild_id = 2
    /\ total[2].guild_id = 1

\* C19: a concurrency of 0 is accepted; with K >= 1 guilds the tasks are
\* spawned but none acquires a permit or issues a lookup, the drain loop
\* receives nothing and the run neither terminates nor reports.
C19_ZeroConcurrencyHangs ==
    (args.concurrency = 0 /\ index.kind = "map" /\ Len(index.map) >= 1) =>
        /\ main_pc \in {"read_index", "spawn", "drain"}
        /\ fail = "none"
        /\ main_pc = "drain" => spawned = K
        /\ \A t \in GuildIds :
             /\ task[t].pc \in {"unspawned", "start", "waiting"}
             /\ ~task[t].ticket
             /\ task[t].status = "none"
        /\ permits = 0
        /\ completed = <<>>
        /\ join_set = 1..spawned
        /\ total = <<>> /\ errors = 0
        /\ out = <<>> /\ err_report = <<>>
        /\ (main_pc = "drain" /\ Len(waiters) = K) => ~ENABLED Next

\* With N = 0 all three tasks are queued on the semaphore and main is draining.
C19_Witness ==
    /\ args.concurrency = 0
    /\ K = 3
    /\ main_pc = "drain"
    /\ Len(waiters) = 3

====
